---- MODULE Spec2Model ----
(***************************************************************************)
(* A model of the LLParser parser-combinator library                       *)
(* (src/include/llparser/llparser.h).                                      *)
(*                                                                         *)
(* A parse is run as an explicit call stack: every parse function (the     *)
(* lambda each factory stores in a node) is a frame with its local         *)
(* variables, a call of a child pushes a frame, a return pops it and hands *)
(* the ParseResult to the caller through `ret`.                            *)
(***************************************************************************)
EXTENDS Integers, Sequences, FiniteSets, TLC

VARIABLES
    text,      \* the input string of the parses (a sequence of characters)
    objects,   \* the nodes of the parser graph, in allocation order
    holders,   \* the const LLParser* cells that lazy nodes point to
    results,   \* the std::vector a recording mapper pushes to (its extra argument)
    stacks,    \* per thread: the call stack of parse-function frames, innermost last
    rets,      \* per thread: the ParseResult just returned by the innermost finished call
    history,   \* per thread: what was refused, guarded and absorbed in its parse
    arenas,    \* the ObjectAllocator objects: alive or not, and the pointers each holds
    heap       \* per allocated node: how many times it has been deleted

vars == <<text, objects, holders, results, stacks, rets, history, arenas, heap>>

\* The threads that call parse: the first three variables above are what
\* they share, the next three are their own.
Threads == {"main", "other"}

\* The thread the single-threaded properties read.
stack == stacks["main"]
ret == rets["main"]
\* history: offsets at which a primitive was refused in this parse
refused == history["main"].refused
\* history: offsets at which many's zero-width guard fired
guarded == history["main"].guarded
\* history: a child Failure was dropped by times, many or alternative
absorbed == history["main"].absorbed

\* ------------------------------------------------------------------ bounds

\* Longest input text explored.
MaxTextLen == 3

\* Longest text two threads parse at the same time.
MaxConcurrentTextLen == 3

\* Most ObjectAllocator objects a program declares, and most nodes it
\* allocates.
MaxArenas == 3
MaxAllocations == 3

\* Longest text the arithmetic parser is given.
MaxArithLen == 5

\* Longest text the arithmetic parser is followed to its return on.
MaxArithLiveLen == 4

\* Most calls of the arithmetic parser in one run of the program, and the
\* longest text of these calls.
MaxCalls == 3
MaxCallsTextLen == 2

\* ------------------------------------------------------------- characters

\* The characters of the explored inputs: a lower-case and an upper-case
\* letter (one word character in two casings) and a blank.
Alphabet == {"a", "A", " "}

\* std::tolower on the characters of the alphabet.
tolower(c) == IF c = "A" THEN "a" ELSE c

Min(a, b) == IF a < b THEN a ELSE b

RECURSIVE TextsOfLen(_)
TextsOfLen(n) ==
    IF n = 0 THEN {<<>>}
    ELSE {Append(t, c) : t \in TextsOfLen(n - 1), c \in Alphabet}

Texts == UNION {TextsOfLen(n) : n \in 0..MaxTextLen}

\* ----------------------------------------------------------------- values

\* std::any values.  Every value has the same three fields so that any two
\* of them can be compared: a string, a vector of values, nullptr, or an
\* empty std::any.
Str(s) == [t |-> "string", s |-> s, l |-> <<>>]
List(l) == [t |-> "vector", s |-> <<>>, l |-> l]
Null == [t |-> "nullptr", s |-> <<>>, l |-> <<>>]
None == [t |-> "empty", s |-> <<>>, l |-> <<>>]

\* ------------------------------------------------------------ ParseResult

Success(index, value) ==
    [status |-> "SUCCESS", index |-> index, value |-> value, expectations |-> <<>>]

Failure(index, expectation) ==
    [status |-> "FAILURE", index |-> index, value |-> None,
     expectations |-> <<expectation>>]

FailureNoExpectation(index) ==
    [status |-> "FAILURE", index |-> index, value |-> None, expectations |-> <<>>]

is_success(r) == r.status = "SUCCESS"

\* A plausible bug of merge: the last failure wins, whatever its offset.
MergeLastFailureWins(self, other) ==
    IF self.status = other.status /\ is_success(self)
    THEN [self EXCEPT !.index = other.index,
                      !.value = List(Append(self.value.l, other.value))]
    ELSE other

\* A plausible bug of merge: a failure at the same offset is dropped instead
\* of appended.
MergeDropsEqual(self, other) ==
    IF self.status = other.status
    THEN IF is_success(self)
         THEN [self EXCEPT !.index = other.index,
                           !.value = List(Append(self.value.l, other.value))]
         ELSE IF other.index > self.index
              THEN [self EXCEPT !.index = other.index,
                                !.expectations = other.expectations]
              ELSE self
    ELSE other

\* A plausible bug of merge: a failure further along does not supersede.
MergeKeepsNearest(self, other) ==
    IF self.status = other.status
    THEN IF is_success(self)
         THEN [self EXCEPT !.index = other.index,
                           !.value = List(Append(self.value.l, other.value))]
         ELSE IF other.index = self.index
              THEN [self EXCEPT !.expectations =
                                    self.expectations \o other.expectations]
              ELSE self
    ELSE other

\* A plausible bug of merge: a failure merged into a success takes over the
\* status, index and expectations but leaves the accumulated value in place.
MergeKeepsPartialValue(self, other) ==
    IF self.status = other.status
    THEN IF is_success(self)
         THEN [self EXCEPT !.index = other.index,
                           !.value = List(Append(self.value.l, other.value))]
         ELSE IF other.index > self.index
              THEN [self EXCEPT !.index = other.index,
                                !.expectations = other.expectations]
              ELSE IF other.index = self.index
                   THEN [self EXCEPT !.expectations =
                                         self.expectations \o other.expectations]
                   ELSE self
    ELSE IF is_success(other) THEN other
         ELSE [other EXCEPT !.value = self.value]

\* A plausible bug of merge: a failure further along moves the index but its
\* expectations are appended to the ones already there.
MergeAppendsFurther(self, other) ==
    IF self.status = other.status
    THEN IF is_success(self)
         THEN [self EXCEPT !.index = other.index,
                           !.value = List(Append(self.value.l, other.value))]
         ELSE IF other.index >= self.index
              THEN [self EXCEPT !.index = other.index,
                                !.expectations =
                                    self.expectations \o other.expectations]
              ELSE self
    ELSE other

\* ParseResult::merge, as the value of *this after the call.
merge(self, other) ==
    IF self.status = other.status
    THEN IF is_success(self)
         THEN [self EXCEPT !.index = other.index,
                           !.value = List(Append(self.value.l, other.value))]
         ELSE IF other.index > self.index
              THEN [self EXCEPT !.index = other.index,
                                !.expectations = other.expectations]
              ELSE IF other.index = self.index
                   THEN [self EXCEPT !.expectations =
                                         self.expectations \o other.expectations]
                   ELSE self
    ELSE other

\* -------------------------------------------------------------- the nodes

\* An LLParser node: its parse function (kind) and its attachment.  Every
\* node record has the same fields; a factory fills in the ones its
\* attachment holds.
Node == [kind |-> "none", literal |-> <<>>, case_sensitive |-> TRUE,
         pattern |-> <<>>, class |-> {}, least |-> 0, repeated |-> TRUE,
         parsers |-> <<>>, min |-> 0, max |-> 0, mapper |-> "none", holder |-> 0]

\* LLParser::string<case_sensitive>(literal)
string(literal, case_sensitive) ==
    [Node EXCEPT !.kind = "string", !.literal = literal,
                 !.case_sensitive = case_sensitive]

\* LLParser::regex(pattern) for a pattern that is one character class
\* repeated `least` or more times: `class` and `least` stand for the compiled
\* std::regex, `pattern` is the pattern string kept for the expectation.
regex(pattern, class, least) ==
    [Node EXCEPT !.kind = "regex", !.pattern = pattern, !.class = class,
                 !.least = least]

\* LLParser::regex(pattern) for a pattern that is an alternation of single
\* characters, the characters of `class`.
regex_one_of(pattern, class) ==
    [regex(pattern, class, 1) EXCEPT !.repeated = FALSE]

eof == [Node EXCEPT !.kind = "eof"]

lazy(parser_pointer) == [Node EXCEPT !.kind = "lazy", !.holder = parser_pointer]

sequence(parsers) == [Node EXCEPT !.kind = "sequence", !.parsers = parsers]

alternative(parsers) == [Node EXCEPT !.kind = "alternative", !.parsers = parsers]

map(inner_parser, mapper) ==
    [Node EXCEPT !.kind = "map", !.parsers = <<inner_parser>>, !.mapper = mapper]

times(inner_parser, min, max) ==
    [Node EXCEPT !.kind = "times", !.parsers = <<inner_parser>>,
                 !.min = min, !.max = max]

many(inner_parser) == [Node EXCEPT !.kind = "many", !.parsers = <<inner_parser>>]

\* std::numeric_limits<uint32_t>::max() is 4294967295; the model checker's
\* integers end at 2147483647, which stands in for it. Either is far more
\* than the iterations any loop makes on the texts explored, where every
\* iteration of atLeast consumes a character.
UINT32_MAX == 2147483647

\* a.atLeast(num) is a.times(num, UINT32_MAX).
atLeast(inner_parser, num) == times(inner_parser, num, UINT32_MAX)

\* a.or_else(b) is alternative(a, b).
or_else(self, parser) == alternative(<<self, parser>>)

\* The patterns and the expectation of eof, as strings of characters.
WordPattern == <<"\\", "w", "+">>
SpacesPattern == <<"\\", "s", "+">>
OptSpacesPattern == <<"\\", "s", "*">>
EofExpectation == <<"E", "O", "F">>

WordClass == {"a", "A"}
SpaceClass == {" "}

\* The parser graph the parses run on: the nodes one ObjectAllocator holds
\* after construction, in allocation order; a node names its children by
\* their position.  The graphs are those of the library's tests
\* (alternatives of sequences, a tokenised word repeated by times and many),
\* a recursive rule through lazy, and repetitions of zero-width parsers.
Objects ==
    << string(<<"a">>, TRUE),                  \*  1  "a"
       string(<<"a", "A">>, FALSE),            \*  2  "aA", case-insensitive
       string(<<>>, TRUE),                     \*  3  "" (always zero-width)
       regex(WordPattern, WordClass, 1),       \*  4  \w+
       regex(OptSpacesPattern, SpaceClass, 0), \*  5  \s* (optional_whitespaces)
       regex(SpacesPattern, SpaceClass, 1),    \*  6  \s+ (whitespaces)
       eof,                                    \*  7
       sequence(<<1, 1>>),                     \*  8  "a" "a"
       sequence(<<1, 6>>),                     \*  9  "a" \s+
       alternative(<<8, 2, 9>>),               \* 10
       sequence(<<1, 4, 7>>),                  \* 11  "a" \w+ eof
       sequence(<<4, 5>>),                     \* 12
       map(12, "first"),                       \* 13  \w+ .skip(\s*)
       times(13, 1, 2),                        \* 14
       times(13, 2, 1),                        \* 15  min > max
       times(5, 0, 2),                         \* 16  a zero-width child
       times(1, 2, 3),                         \* 17
       many(13),                               \* 18
       or_else(1, 5),                          \* 19  "a" or zero-width
       many(19),                               \* 20
       many(3),                                \* 21
       many(8),                                \* 22
       sequence(<<22, 7>>),                    \* 23  ("a" "a")* eof
       lazy(1),                                \* 24  lazy(&holders[1])
       sequence(<<1, 24>>),                    \* 25
       alternative(<<25, 7>>),                 \* 26  R = "a" R | eof
       sequence(<<7, 7>>),                     \* 27  reads no character
       times(7, 0, 2),                         \* 28  reads no character
       map(4, "record"),                       \* 29  \w+ mapped, with an extra argument
       sequence(<<1, 4>>),                     \* 30
       map(30, "second"),                      \* 31  "a" .then(\w+)
       atLeast(13, 0),                         \* 32
       atLeast(8, 0),                          \* 33
       alternative(<<2, 9, 2, 9>>),            \* 34
       map(9, "first") >>                      \* 35  "a" .skip(\s+)

NodeIds == 1..Len(Objects)

\* The holder cells after static initialisation: cell 1 is assigned rule 26.
InitialHolders == <<26>>

\* The holder cells when the lazy nodes are built: not assigned yet (null).
NullHolders == <<0>>

\* The parsers a holder cell is assigned once they are built: the recursive
\* rule 26, or plain eof.
HolderTargets == {26, 7}

\* ------------------------------------------------------------- primitives

\* std::string::compare(...) == 0 on the two compared substrings.
compare(a, b) == IF a = b THEN 0 ELSE 1

\* A plausible bug of string: the value is the literal, not the input text.
StringParseLiteralValue(literal, case_sensitive, t, start) ==
    LET length == Len(t) - start
        n == Min(Len(literal), length)
        is_equivalent ==
            IF case_sensitive
            THEN compare(literal, SubSeq(t, start + 1, start + n)) = 0
            ELSE /\ Len(literal) = n
                 /\ \A k \in 1..n : tolower(literal[k]) = tolower(t[start + k])
    IN  IF is_equivalent
        THEN Success(start + Len(literal), Str(literal))
        ELSE Failure(start, literal)

\* A plausible bug of string: only the characters that remain are compared.
StringParsePrefix(literal, case_sensitive, t, start) ==
    LET length == Len(t) - start
        n == Min(Len(literal), length)
        is_equivalent ==
            IF case_sensitive
            THEN \A k \in 1..n : literal[k] = t[start + k]
            ELSE \A k \in 1..n : tolower(literal[k]) = tolower(t[start + k])
    IN  IF is_equivalent
        THEN Success(start + Len(literal), Str(SubSeq(t, start + 1, start + n)))
        ELSE Failure(start, literal)

\* A plausible bug of string: a match is reported where it started, the
\* index does not move past the literal.
StringParsePeeks(literal, case_sensitive, t, start) ==
    LET length == Len(t) - start
        n == Min(Len(literal), length)
        is_equivalent ==
            IF case_sensitive
            THEN compare(literal, SubSeq(t, start + 1, start + n)) = 0
            ELSE /\ Len(literal) = n
                 /\ \A k \in 1..n : tolower(literal[k]) = tolower(t[start + k])
    IN  IF is_equivalent
        THEN Success(start, Str(SubSeq(t, start + 1, start + Len(literal))))
        ELSE Failure(start, literal)

\* The parse function of string<case_sensitive>: compare (case-sensitive) or
\* std::equal over tolower (case-insensitive) of the literal against the
\* min(literal.length(), length) characters of the text from start.
StringParse(literal, case_sensitive, t, start) ==
    LET length == Len(t) - start
        n == Min(Len(literal), length)
        is_equivalent ==
            IF case_sensitive
            THEN compare(literal, SubSeq(t, start + 1, start + n)) = 0
            ELSE /\ Len(literal) = n
                 /\ \A k \in 1..n : tolower(literal[k]) = tolower(t[start + k])
    IN  IF is_equivalent
        THEN Success(start + Len(literal),
                     Str(SubSeq(t, start + 1, start + Len(literal))))
        ELSE Failure(start, literal)

\* The length of the longest run of characters of `class` in t from start:
\* what a greedy class repetition anchored at start (^(?:...)) matches.
RECURSIVE MatchLength(_, _, _)
MatchLength(class, t, start) ==
    IF start < Len(t) /\ t[start + 1] \in class
    THEN 1 + MatchLength(class, t, start + 1)
    ELSE 0

\* The parse function of regex (group 0).
RegexParse(pattern, class, least, t, start) ==
    LET length == MatchLength(class, t, start)
    IN  IF length >= least
        THEN Success(start + length, Str(SubSeq(t, start + 1, start + length)))
        ELSE Failure(start, pattern)

\* The parse function of regex for an alternation of single characters.
RegexParseOneOf(pattern, class, t, start) ==
    IF start < Len(t) /\ t[start + 1] \in class
    THEN Success(start + 1, Str(SubSeq(t, start + 1, start + 1)))
    ELSE Failure(start, pattern)

\* What the regex node with attachment `node` returns at (t, start).
RegexResult(node, t, start) ==
    IF node.repeated
    THEN RegexParse(node.pattern, node.class, node.least, t, start)
    ELSE RegexParseOneOf(node.pattern, node.class, t, start)

\* A plausible bug of eof: the comparison is <= instead of <.
EofParseOffByOne(t, start) ==
    IF start <= Len(t) THEN Failure(start, EofExpectation) ELSE Success(start, Null)

\* The parse function of eof.
EofParse(t, start) ==
    IF start < Len(t) THEN Failure(start, EofExpectation) ELSE Success(start, Null)

\* A plausible bug of the mappers of skip and then: the indices swapped.
ApplySwapped(mapper, value) ==
    IF mapper = "first" THEN value.l[2]
    ELSE IF mapper = "second" THEN value.l[1]
    ELSE Str([k \in 1..Len(value.s) |-> tolower(value.s[k])])

\* out << "[" << operation << ", " << left << ", " << right << "]"
Bracket(operation, left, right) ==
    <<"[">> \o operation \o <<",", " ">> \o left \o <<",", " ">> \o right \o <<"]">>

\* A plausible bug of the arithmetic mapper: the parts are folded from the
\* right.
RECURSIVE FoldRight(_, _)
FoldRight(left, parts) ==
    IF parts = <<>> THEN left
    ELSE Str(Bracket(parts[1].l[1].s, left.s,
                     FoldRight(parts[1].l[2], Tail(parts)).s))

\* The mapper of the arithmetic expression: left starts as input[0] and, for
\* each part of input[1] in order, becomes "[operation, left, right]".
RECURSIVE Fold(_, _)
Fold(left, parts) ==
    IF parts = <<>> THEN left
    ELSE Fold(Str(Bracket(parts[1].l[1].s, left.s, parts[1].l[2].s)), Tail(parts))

\* The mappers of skip and then, values[0] and values[1], the mapper of the
\* arithmetic expression, and a mapper that converts the matched string
\* (here: to lower case) and, like the one of TestMap, pushes to the vector
\* passed as its extra argument.
Apply(mapper, value) ==
    IF mapper = "first" THEN value.l[1]
    ELSE IF mapper = "second" THEN value.l[2]
    ELSE IF mapper = "fold" THEN Fold(value.l[1], value.l[2].l)
    ELSE Str([k \in 1..Len(value.s) |-> tolower(value.s[k])])

\* Whether the mapper pushes its result to `results`.
Records(mapper) == mapper = "record"

\* ----------------------------------------------------- combinator decisions

\* What a loop body decides once a child has returned: the new value of the
\* local `result` and whether the parse function returns it now.

\* A plausible bug of sequence: the loop goes on after a failed child.
SequenceNextNoReturn(result, child) ==
    [result |-> merge(result, child), return |-> FALSE]

\* sequence: result.merge(child); return on the first failure.
SequenceNext(result, child) ==
    LET merged == merge(result, child)
    IN  [result |-> merged, return |-> ~is_success(merged)]

\* A plausible bug of alternative: the loop goes on after a child succeeded.
AlternativeNextNoReturn(result, child) ==
    [result |-> merge(result, child), return |-> FALSE]

\* alternative: result.merge(child); return on the first success.
AlternativeNext(result, child) ==
    LET merged == merge(result, child)
    IN  [result |-> merged, return |-> is_success(merged)]

\* A plausible bug of times: the failure is propagated up to and including
\* min successes.
TimesNextOffByOne(result, new_result, i, min) ==
    IF ~is_success(new_result)
    THEN [result |-> IF i <= min THEN new_result ELSE result, return |-> TRUE]
    ELSE [result |-> merge(result, new_result), return |-> FALSE]

\* A plausible bug of times: a failed attempt is returned whatever its
\* number.
TimesNextReturnsFailure(result, new_result, i, min) ==
    IF ~is_success(new_result)
    THEN [result |-> new_result, return |-> TRUE]
    ELSE [result |-> merge(result, new_result), return |-> FALSE]

\* times: a failed attempt number i (from 0) is returned if i < min and
\* ends the loop otherwise; a success is merged.
TimesNext(result, new_result, i, min) ==
    IF ~is_success(new_result)
    THEN [result |-> IF i < min THEN new_result ELSE result, return |-> TRUE]
    ELSE [result |-> merge(result, new_result), return |-> FALSE]

\* A plausible bug of many: a failed attempt is returned, as times does
\* below its minimum.
ManyNextReturnsFailure(result, new_result) ==
    IF ~is_success(new_result)
    THEN [result |-> new_result, return |-> TRUE]
    ELSE IF new_result.index = result.index
         THEN [result |-> Failure(new_result.index, <<>>), return |-> TRUE]
         ELSE [result |-> merge(result, new_result), return |-> FALSE]

\* A plausible bug of many: there is no zero-width guard, every success is
\* merged and the loop goes on.
ManyNextMergesAll(result, new_result) ==
    IF ~is_success(new_result)
    THEN [result |-> result, return |-> TRUE]
    ELSE [result |-> merge(result, new_result), return |-> FALSE]

\* A plausible bug of many: the zero-width guard is missing a case, a
\* zero-width success ends the loop with the values collected so far.
ManyNextNoGuard(result, new_result) ==
    IF ~is_success(new_result) \/ new_result.index = result.index
    THEN [result |-> result, return |-> TRUE]
    ELSE [result |-> merge(result, new_result), return |-> FALSE]

\* many: a failed attempt ends the loop, a zero-width success returns
\* Failure(index, ""), any other success is merged.
ManyNext(result, new_result) ==
    IF ~is_success(new_result)
    THEN [result |-> result, return |-> TRUE]
    ELSE IF new_result.index = result.index
         THEN [result |-> Failure(new_result.index, <<>>), return |-> TRUE]
         ELSE [result |-> merge(result, new_result), return |-> FALSE]

\* The offset a combinator hands to the child it calls.
\* A plausible bug of sequence: every child starts at the original start.
SequenceCallAtStart(start, result) == start

SequenceCallAt(start, result) == result.index

\* A plausible bug of alternative: a child starts where the last failure was.
AlternativeCallAtIndex(start, result) == result.index

AlternativeCallAt(start, result) == start

\* ------------------------------------------------------------- call stack

\* The value of `result` a parse function starts with.
InitialResult(kind, start) ==
    IF kind \in {"sequence", "times", "many"} THEN Success(start, List(<<>>))
    ELSE IF kind = "alternative" THEN FailureNoExpectation(start)
    ELSE [status |-> "SUCCESS", index |-> 0, value |-> None, expectations |-> <<>>]

kind_of(n) == objects[n].kind

\* The frame of a parse function called on `node` at `start`: i counts the
\* children handled so far, kids records what each called child returned.
Frame(node, start) ==
    [node |-> node, start |-> start, i |-> 0,
     result |-> InitialResult(kind_of(node), start), kids |-> <<>>]

NoRet ==
    [valid |-> FALSE, node |-> 0, start |-> 0, res |-> InitialResult("none", 0),
     kids |-> <<>>]

\* What a frame hands back: the result, and for the record the node, the
\* start offset and the children's results it was computed from.
Returned(f, res, kids) ==
    [valid |-> TRUE, node |-> f.node, start |-> f.start, res |-> res, kids |-> kids]

NoHistory ==
    [refused |-> {}, guarded |-> {}, absorbed |-> FALSE, overlapped |-> FALSE,
     calls |-> 0]

top(th) == stacks[th][Len(stacks[th])]
Pop(th) == SubSeq(stacks[th], 1, Len(stacks[th]) - 1)

\* The attachment of the node the innermost frame of th runs on.
Self(th) == objects[top(th).node]

Running(th, kind) ==
    stacks[th] # <<>> /\ ~rets[th].valid /\ kind_of(top(th).node) = kind
Resumed(th, kind) ==
    stacks[th] # <<>> /\ rets[th].valid /\ kind_of(top(th).node) = kind

\* The child's result as the caller records it.
Kid(th) == [node |-> rets[th].node, start |-> rets[th].start, res |-> rets[th].res]

\* What no parse function writes: the text, the graph, the holder cells,
\* the allocators.
shared == <<text, objects, holders, arenas, heap>>

\* The top frame of th calls `child` at offset `at`.
Call(th, child, at) ==
    /\ stacks' = [stacks EXCEPT ![th] = Append(@, Frame(child, at))]
    /\ UNCHANGED <<shared, results, rets, history>>

\* The top frame of th goes on with its loop after a child returned.
Continue(th, result) ==
    /\ stacks' = [stacks EXCEPT ![th] =
                     [@ EXCEPT ![Len(@)] =
                         [@ EXCEPT !.i = @ + 1, !.result = result,
                                   !.kids = Append(@, Kid(th))]]]
    /\ rets' = [rets EXCEPT ![th] = NoRet]

\* The top frame of th returns `res`.
Return(th, res, kids) ==
    /\ stacks' = [stacks EXCEPT ![th] = Pop(th)]
    /\ rets' = [rets EXCEPT ![th] = Returned(top(th), res, kids)]

\* The nodes a parse of `root` can call.
Children(n) ==
    IF kind_of(n) = "lazy" THEN {holders[objects[n].holder]}
    ELSE {objects[n].parsers[k] : k \in 1..Len(objects[n].parsers)}

RECURSIVE Closure(_)
Closure(S) ==
    LET T == S \cup UNION {Children(n) : n \in S}
    IN  IF T = S THEN S ELSE Closure(T)

\* string and regex form cbegin(text) + start: with start > text.length()
\* that is undefined, so a parse is started past the end only on a graph
\* that never reads the text (eof and combinators over it).
ReadsNoCharacter(root) ==
    \A n \in Closure({root}) : kind_of(n) \notin {"string", "regex"}

\* -------------------------------------------------------------- the parse

\* No allocator is looked at while the library graph is parsed with.
NoArenas == <<>>
NoHeap == <<>>

Idle ==
    /\ results = <<>>
    /\ stacks = [th \in Threads |-> <<>>]
    /\ rets = [th \in Threads |-> NoRet]
    /\ history = [th \in Threads |-> NoHistory]

\* The library graph is built; the holder cells are still to be assigned.
Init ==
    /\ text \in Texts
    /\ objects = Objects
    /\ holders = NullHolders
    /\ arenas = NoArenas
    /\ heap = NoHeap
    /\ Idle

\* A holder cell is assigned a parser, after the lazy node over it was built
\* and before anything is parsed (HOLDER = ...;).
AssignHolder(cell, parser) ==
    /\ holders[cell] = 0
    /\ holders' = [holders EXCEPT ![cell] = parser]
    /\ UNCHANGED <<text, objects, arenas, heap, results, stacks, rets, history>>

\* LLParser::parse(text, start) on a node of the graph, by thread th.
Invoke(th, root, start) ==
    /\ stacks[th] = <<>>
    /\ ~rets[th].valid
    /\ \A cell \in DOMAIN holders : holders[cell] # 0
    /\ start <= Len(text) \/ ReadsNoCharacter(root)
    /\ stacks' = [stacks EXCEPT ![th] = <<Frame(root, start)>>]
    /\ history' = [history EXCEPT ![th].overlapped =
                      \E other \in Threads : stacks[other] # <<>>]
    /\ UNCHANGED <<shared, results, rets>>

\* A primitive returns r.
PrimitiveReturn(th, r) ==
    /\ Return(th, r, <<>>)
    /\ history' = [history EXCEPT ![th].refused =
                      IF is_success(r) THEN @ ELSE @ \cup {r.index}]
    /\ UNCHANGED <<shared, results>>

StringStep(th) ==
    /\ Running(th, "string")
    /\ PrimitiveReturn(th, StringParse(Self(th).literal, Self(th).case_sensitive,
                                       text, top(th).start))

RegexStep(th) ==
    /\ Running(th, "regex")
    /\ PrimitiveReturn(th, RegexResult(Self(th), text, top(th).start))

EofStep(th) ==
    /\ Running(th, "eof")
    /\ PrimitiveReturn(th, EofParse(text, top(th).start))

\* A plausible bug of lazy: the parser is taken from one fixed assignment of
\* the cell, not from the cell as it is when parse is called.
LazyTargetFixed(cells, cell) == InitialHolders[cell]

\* *inner_parser: the parser the cell holds now.
LazyTarget(cells, cell) == cells[cell]

\* lazy: (*inner_parser)->parse(text, start), the cell read at the call.
LazyCall(th) ==
    /\ Running(th, "lazy")
    /\ Call(th, LazyTarget(holders, Self(th).holder), top(th).start)

\* A plausible bug of lazy: the node memoises the parser it resolved by
\* taking over its attachment.
LazyReturnMemoising(th) ==
    /\ Resumed(th, "lazy")
    /\ Return(th, rets[th].res, <<Kid(th)>>)
    /\ objects' = [objects EXCEPT ![top(th).node] = objects[rets[th].node]]
    /\ UNCHANGED <<text, holders, arenas, heap, results, history>>

LazyReturn(th) ==
    /\ Resumed(th, "lazy")
    /\ Return(th, rets[th].res, <<Kid(th)>>)
    /\ UNCHANGED <<shared, results, history>>

\* sequence: the next child is called at result.index.
SequenceCall(th) ==
    /\ Running(th, "sequence")
    /\ Call(th, Self(th).parsers[top(th).i + 1],
            SequenceCallAt(top(th).start, top(th).result))

\* sequence: the child's result is merged; the function returns on a
\* failure and after the last child.
SequenceMerge(th) ==
    /\ Resumed(th, "sequence")
    /\ LET next == SequenceNext(top(th).result, rets[th].res)
       IN  IF next.return \/ top(th).i + 1 = Len(Self(th).parsers)
           THEN Return(th, next.result, Append(top(th).kids, Kid(th)))
           ELSE Continue(th, next.result)
    /\ UNCHANGED <<shared, results, history>>

\* alternative: the next child is called at start.
AlternativeCall(th) ==
    /\ Running(th, "alternative")
    /\ Call(th, Self(th).parsers[top(th).i + 1],
            AlternativeCallAt(top(th).start, top(th).result))

\* alternative: the child's result is merged; the function returns on a
\* success and after the last child.
AlternativeMerge(th) ==
    /\ Resumed(th, "alternative")
    /\ LET next == AlternativeNext(top(th).result, rets[th].res)
       IN  IF next.return \/ top(th).i + 1 = Len(Self(th).parsers)
           THEN Return(th, next.result, Append(top(th).kids, Kid(th)))
           ELSE Continue(th, next.result)
    /\ history' = [history EXCEPT ![th].absorbed =
                      @ \/ (is_success(rets[th].res) /\ top(th).i > 0)]
    /\ UNCHANGED <<shared, results>>

\* map: the inner parser is called at start.
MapCall(th) ==
    /\ Running(th, "map")
    /\ Call(th, Self(th).parsers[1], top(th).start)

\* A plausible bug of map: the inner parser's result is returned without
\* applying the mapper.
MapResultUnmapped(mapper, result) == result

\* What map returns for the inner parser's result: a failure as it is, a
\* success with the mapped value at the same index.
MapResult(mapper, result) ==
    IF ~is_success(result) THEN result
    ELSE Success(result.index, Apply(mapper, result.value))

\* map: the mapper is applied to a success only; a recording mapper pushes
\* what it returns.
MapReturn(th) ==
    /\ Resumed(th, "map")
    /\ Return(th, MapResult(Self(th).mapper, rets[th].res), <<Kid(th)>>)
    /\ results' = IF is_success(rets[th].res) /\ Records(Self(th).mapper)
                  THEN Append(results, Apply(Self(th).mapper, rets[th].res.value))
                  ELSE results
    /\ UNCHANGED <<shared, history>>

\* times: for (i = 0; i < max; ++i) calls the inner parser at result.index.
TimesCall(th) ==
    /\ Running(th, "times")
    /\ top(th).i < Self(th).max
    /\ Call(th, Self(th).parsers[1], top(th).result.index)

TimesMerge(th) ==
    /\ Resumed(th, "times")
    /\ LET next == TimesNext(top(th).result, rets[th].res, top(th).i, Self(th).min)
       IN  /\ IF next.return
              THEN Return(th, next.result, Append(top(th).kids, Kid(th)))
              ELSE Continue(th, next.result)
           /\ history' = [history EXCEPT ![th].absorbed =
                             @ \/ (~is_success(rets[th].res) /\ is_success(next.result))]
    /\ UNCHANGED <<shared, results>>

\* times: the loop ends after max attempts.
TimesDone(th) ==
    /\ Running(th, "times")
    /\ top(th).i >= Self(th).max
    /\ Return(th, top(th).result, top(th).kids)
    /\ UNCHANGED <<shared, results, history>>

\* many: while (result.index < text.length()) calls the inner parser.
ManyCall(th) ==
    /\ Running(th, "many")
    /\ top(th).result.index < Len(text)
    /\ Call(th, Self(th).parsers[1], top(th).result.index)

ManyMerge(th) ==
    /\ Resumed(th, "many")
    /\ LET next == ManyNext(top(th).result, rets[th].res)
       IN  /\ IF next.return
              THEN Return(th, next.result, Append(top(th).kids, Kid(th)))
              ELSE Continue(th, next.result)
           /\ history' = [history EXCEPT
                 ![th].guarded = IF is_success(rets[th].res) /\ next.return
                                 THEN @ \cup {next.result.index} ELSE @,
                 ![th].absorbed = @ \/ ~is_success(rets[th].res)]
    /\ UNCHANGED <<shared, results>>

\* many: the loop ends at the end of the text.
ManyDone(th) ==
    /\ Running(th, "many")
    /\ top(th).result.index >= Len(text)
    /\ Return(th, top(th).result, top(th).kids)
    /\ UNCHANGED <<shared, results, history>>

\* One step of the parse thread th is in.
ParseStep(th) ==
    \/ StringStep(th)
    \/ RegexStep(th)
    \/ EofStep(th)
    \/ LazyCall(th)
    \/ LazyReturn(th)
    \/ SequenceCall(th)
    \/ SequenceMerge(th)
    \/ AlternativeCall(th)
    \/ AlternativeMerge(th)
    \/ MapCall(th)
    \/ MapReturn(th)
    \/ TimesCall(th)
    \/ TimesMerge(th)
    \/ TimesDone(th)
    \/ ManyCall(th)
    \/ ManyMerge(th)
    \/ ManyDone(th)

\* One parse, by one thread, of any node of the library graph at any offset.
Next ==
    \/ \E parser \in HolderTargets : AssignHolder(1, parser)
    \/ \E root \in NodeIds, start \in 0..(Len(text) + 1) : Invoke("main", root, start)
    \/ StringStep("main")
    \/ RegexStep("main")
    \/ EofStep("main")
    \/ LazyCall("main")
    \/ LazyReturn("main")
    \/ SequenceCall("main")
    \/ SequenceMerge("main")
    \/ AlternativeCall("main")
    \/ AlternativeMerge("main")
    \/ MapCall("main")
    \/ MapReturn("main")
    \/ TimesCall("main")
    \/ TimesMerge("main")
    \/ TimesDone("main")
    \/ ManyCall("main")
    \/ ManyMerge("main")
    \/ ManyDone("main")

Spec == Init /\ [][Next]_vars

\* The thread that called parse keeps running: a parse function that can
\* take its next step takes it.
LiveSpec == Spec /\ WF_vars(ParseStep("main"))

\* ------------------------------------------------- several parses at a time

\* The texts the threads parse: a letter and a blank are enough to make
\* every parser of the graph succeed and fail.
ConcurrentTexts ==
    {t \in UNION {TextsOfLen(n) : n \in 0..MaxConcurrentTextLen} :
        \A k \in 1..Len(t) : t[k] \in {"a", " "}}

\* The parsers the threads call: those of the graph whose mappers are pure.
ConcurrentRoots == {10, 11, 14, 16, 18, 22, 26, 31, 34}

\* What the other thread calls while or after the main thread parses: the
\* same node, or for a many node the atLeast(0) over the same inner parser.
Twins(root) ==
    {root} \cup IF kind_of(root) = "many"
                THEN {n \in NodeIds :
                         objects[n] = atLeast(objects[root].parsers[1], 0)}
                ELSE {}

Started(th) == stacks[th] # <<>> \/ rets[th].valid
FinishedBy(th) == stacks[th] = <<>> /\ rets[th].valid

\* The outermost call of thread th: its node and start offset.
Outermost(th) == IF stacks[th] # <<>> THEN stacks[th][1] ELSE rets[th]

\* The graph is fully constructed, the holder cell assigned.
ConcurrentInit ==
    /\ text \in ConcurrentTexts
    /\ objects = Objects
    /\ holders = InitialHolders
    /\ arenas = NoArenas
    /\ heap = NoHeap
    /\ Idle

\* The main thread calls parse on a root; the other thread calls parse on
\* the same text and offset at any moment from then on.
MainInvoke ==
    \E root \in ConcurrentRoots, start \in 0..Len(text) : Invoke("main", root, start)

OtherInvoke ==
    /\ Started("main")
    /\ \E root \in Twins(Outermost("main").node) :
           Invoke("other", root, Outermost("main").start)

\* The threads' steps interleave in any order.
ConcurrentNext ==
    \/ MainInvoke
    \/ OtherInvoke
    \/ \E th \in Threads : ParseStep(th)

ConcurrentSpec == ConcurrentInit /\ [][ConcurrentNext]_vars

\* ----------------------------------------------------------- ObjectAllocator

\* An ObjectAllocator: whether it is alive, and its vector `objects` of
\* pointers, each the number of the node it points to.
Arena(pointers) == [alive |-> TRUE, objects |-> pointers]

Alive == {a \in DOMAIN arenas : arenas[a].alive}

\* The nodes a vector of pointers points to.
Pointees(pointers) == {pointers[k] : k \in DOMAIN pointers}

\* Nothing is declared, nothing allocated, nothing parsed.
ArenaInit ==
    /\ text = <<>>
    /\ objects = <<>>
    /\ holders = <<>>
    /\ arenas = NoArenas
    /\ heap = NoHeap
    /\ Idle

\* ObjectAllocator<LLParser> allocator;
Declare ==
    /\ Len(arenas) < MaxArenas
    /\ arenas' = Append(arenas, Arena(<<>>))
    /\ UNCHANGED <<text, objects, holders, heap, results, stacks, rets, history>>

\* allocator.allocate(...): a node is created with new and its pointer
\* pushed to the vector.
Allocate(a) ==
    /\ a \in Alive
    /\ Len(objects) < MaxAllocations
    /\ objects' = Append(objects, eof)
    /\ heap' = Append(heap, 0)
    /\ arenas' = [arenas EXCEPT ![a].objects = Append(@, Len(objects) + 1)]
    /\ UNCHANGED <<text, holders, results, stacks, rets, history>>

\* ObjectAllocator<LLParser> copy = allocator; the implicitly declared copy
\* constructor copies the vector of pointers.
Copy(a) ==
    /\ a \in Alive
    /\ Len(arenas) < MaxArenas
    /\ arenas' = Append(arenas, Arena(arenas[a].objects))
    /\ UNCHANGED <<text, objects, holders, heap, results, stacks, rets, history>>

\* a = b; the implicitly declared copy assignment replaces a's vector of
\* pointers by a copy of b's.
Assign(a, b) ==
    /\ a \in Alive
    /\ b \in Alive
    /\ a # b
    /\ arenas' = [arenas EXCEPT ![a].objects = arenas[b].objects]
    /\ UNCHANGED <<text, objects, holders, heap, results, stacks, rets, history>>

\* ~ObjectAllocator(): delete on every pointer of the vector.
Destroy(a) ==
    /\ a \in Alive
    /\ arenas' = [arenas EXCEPT ![a].alive = FALSE]
    /\ heap' = [n \in DOMAIN heap |->
                   IF n \in Pointees(arenas[a].objects) THEN heap[n] + 1 ELSE heap[n]]
    /\ UNCHANGED <<text, objects, holders, results, stacks, rets, history>>

ArenaNext ==
    \/ Declare
    \/ \E a \in DOMAIN arenas : Allocate(a)
    \/ \E a \in DOMAIN arenas : Copy(a)
    \/ \E a, b \in DOMAIN arenas : Assign(a, b)
    \/ \E a \in DOMAIN arenas : Destroy(a)

ArenaSpec == ArenaInit /\ [][ArenaNext]_vars

\* ------------------------------------------------- the arithmetic example

NumberPattern == <<"\\", "d", "+">>
OperatorPattern == <<"\\", "+", "|", "-">>
DigitClass == {"0", "1", "2", "3", "4", "5", "6", "7", "8", "9"}
OperatorClass == {"+", "-"}

\* Parser::_allocator after the static initialisation of the six rules, in
\* allocation order. tokenize(p) is p.skip(optional_whitespaces()).
ArithObjects ==
    << regex(NumberPattern, DigitClass, 1),          \*  1
       regex(OptSpacesPattern, SpaceClass, 0),       \*  2
       sequence(<<1, 2>>),                           \*  3
       map(3, "first"),                              \*  4  NUMBER_LITERAL
       regex_one_of(OperatorPattern, OperatorClass), \*  5
       regex(OptSpacesPattern, SpaceClass, 0),       \*  6
       sequence(<<5, 6>>),                           \*  7
       map(7, "first"),                              \*  8  OPERATOR_LITERAL
       string(<<"(">>, TRUE),                        \*  9
       regex(OptSpacesPattern, SpaceClass, 0),       \* 10
       sequence(<<9, 10>>),                          \* 11
       map(11, "first"),                             \* 12  LEFT_BRACE_LITERAL
       string(<<")">>, TRUE),                        \* 13
       regex(OptSpacesPattern, SpaceClass, 0),       \* 14
       sequence(<<13, 14>>),                         \* 15
       map(15, "first"),                             \* 16  RIGHT_BRACE_LITERAL
       lazy(1),                                      \* 17  lazy(&EXPRESSION_LITERAL)
       sequence(<<12, 17>>),                         \* 18
       map(18, "second"),                            \* 19  LEFT.then(lazy)
       sequence(<<19, 16>>),                         \* 20
       map(20, "first"),                             \* 21  (...).skip(RIGHT)
       or_else(4, 21),                               \* 22  OPERAND_LITERAL
       sequence(<<8, 22>>),                          \* 23
       atLeast(23, 0),                               \* 24
       sequence(<<22, 24>>),                         \* 25
       map(25, "fold") >>                            \* 26  EXPRESSION_LITERAL

\* The cell EXPRESSION_LITERAL after static initialisation.
ArithHolders == <<Len(ArithObjects)>>

\* The characters of the texts given to the arithmetic parser.
ArithAlphabet == {"1", "+", "(", ")", " "}

RECURSIVE ArithTextsOfLen(_)
ArithTextsOfLen(n) ==
    IF n = 0 THEN {<<>>}
    ELSE {Append(t, c) : t \in ArithTextsOfLen(n - 1), c \in ArithAlphabet}

ArithTexts == UNION {ArithTextsOfLen(n) : n \in 0..MaxArithLen}

\* The static initialisation is done, nothing has been parsed.
ArithInit ==
    /\ text \in ArithTexts
    /\ objects = ArithObjects
    /\ holders = ArithHolders
    /\ arenas = <<Arena([n \in 1..Len(ArithObjects) |-> n])>>
    /\ heap = [n \in 1..Len(ArithObjects) |-> 0]
    /\ Idle

\* A plausible change of Parser::parse: the parser over EXPRESSION_LITERAL
\* is built by the first call only and used again by the later ones.
ParserParseCached ==
    /\ stack = <<>>
    /\ ~ret.valid
    /\ 1 \in Alive
    /\ LET n == IF Len(objects) = Len(ArithObjects)
                THEN Len(objects) ELSE Len(objects) - 3
       IN  /\ objects' = SubSeq(objects, 1, n) \o
                             <<eof,
                               sequence(<<holders[1], n + 1>>),
                               map(n + 2, "first")>>
           /\ arenas' = [arenas EXCEPT ![1].objects = [k \in 1..(n + 3) |-> k]]
           /\ heap' = [k \in 1..(n + 3) |-> 0]
           /\ stacks' = [stacks EXCEPT !["main"] =
                            <<[node |-> n + 3, start |-> 0, i |-> 0,
                               result |-> InitialResult("map", 0), kids |-> <<>>]>>]
    /\ history' = [history EXCEPT !["main"].calls = @ + 1]
    /\ UNCHANGED <<text, holders, results, rets>>

\* Parser::parse(text): EXPRESSION_LITERAL->skip(eof()) is built in
\* _allocator (an eof, a sequence and a map node) and called on the text
\* from offset 0.
ParserParse ==
    /\ stack = <<>>
    /\ ~ret.valid
    /\ 1 \in Alive
    /\ LET n == Len(objects)
       IN  /\ objects' = objects \o <<eof,
                                      sequence(<<holders[1], n + 1>>),
                                      map(n + 2, "first")>>
           /\ arenas' = [arenas EXCEPT ![1].objects = @ \o <<n + 1, n + 2, n + 3>>]
           /\ heap' = heap \o <<0, 0, 0>>
           /\ stacks' = [stacks EXCEPT !["main"] =
                            <<[node |-> n + 3, start |-> 0, i |-> 0,
                               result |-> InitialResult("map", 0), kids |-> <<>>]>>]
    /\ history' = [history EXCEPT !["main"].calls = @ + 1]
    /\ UNCHANGED <<text, holders, results, rets>>

\* The parse functions the arithmetic grammar is built from.
ArithNext ==
    \/ ParserParse
    \/ StringStep("main")
    \/ RegexStep("main")
    \/ EofStep("main")
    \/ LazyCall("main")
    \/ LazyReturn("main")
    \/ SequenceCall("main")
    \/ SequenceMerge("main")
    \/ AlternativeCall("main")
    \/ AlternativeMerge("main")
    \/ MapCall("main")
    \/ MapReturn("main")
    \/ TimesCall("main")
    \/ TimesMerge("main")

ArithSpec == ArithInit /\ [][ArithNext]_vars

\* ------------------------------------ calls of the arithmetic parser in a row

CallTexts == {t \in ArithTexts : Len(t) <= MaxCallsTextLen}

ArithCallsInit ==
    /\ ArithInit
    /\ text \in CallTexts

\* Parser::parse is called while the program runs, a bounded number of
\* times here.
ParserCall ==
    /\ history["main"].calls < MaxCalls
    /\ ParserParse

\* Parser::parse returns its tuple; the caller goes on, with the text of its
\* next call at hand.
ParserReturn ==
    /\ stack = <<>>
    /\ ret.valid
    /\ rets' = [rets EXCEPT !["main"] = NoRet]
    /\ history' = [history EXCEPT !["main"] =
                      [NoHistory EXCEPT !.calls = history["main"].calls]]
    /\ text' \in CallTexts
    /\ UNCHANGED <<objects, holders, arenas, heap, results, stacks>>

\* The program ends: the static Parser::_allocator is destroyed.
Exit ==
    /\ stack = <<>>
    /\ Destroy(1)

ArithCallsNext ==
    \/ ParserCall
    \/ ParserReturn
    \/ Exit
    \/ StringStep("main")
    \/ RegexStep("main")
    \/ EofStep("main")
    \/ LazyCall("main")
    \/ LazyReturn("main")
    \/ SequenceCall("main")
    \/ SequenceMerge("main")
    \/ AlternativeCall("main")
    \/ AlternativeMerge("main")
    \/ MapCall("main")
    \/ MapReturn("main")
    \/ TimesCall("main")
    \/ TimesMerge("main")

ArithCallsSpec == ArithCallsInit /\ [][ArithCallsNext]_vars

\* The same, on the texts the parse is followed to its return on.
ArithLiveInit ==
    /\ ArithInit
    /\ Len(text) <= MaxArithLiveLen

\* Parser::parse is a synchronous call: once made, the parse functions run
\* on, one step after the other.
ArithLiveSpec ==
    ArithLiveInit /\ [][ArithNext]_vars /\ WF_vars(ParseStep("main"))

\* ------------------------------------------------------------- properties

\* What the properties read: the call that has just returned (ret), the
\* children it called with what each returned (ret.kids), its node.
Returns(kind) == ret.valid /\ kind_of(ret.node) = kind
Finished == stack = <<>> /\ ret.valid
Attachment == objects[ret.node]
NKids == Len(ret.kids)
LastKid == ret.kids[NKids]
NoValue(r) == r.value = None

AllFail(kids) == \A k \in 1..Len(kids) : ~is_success(kids[k].res)

\* The largest index among the results of `kids` (a non-empty sequence).
MaxIndex(kids) ==
    CHOOSE m \in {kids[k].res.index : k \in 1..Len(kids)} :
        \A k \in 1..Len(kids) : kids[k].res.index <= m

\* The expectations of the kids whose index is m, in order.
RECURSIVE ExpectationsAt(_, _)
ExpectationsAt(kids, m) ==
    IF kids = <<>> THEN <<>>
    ELSE (IF Head(kids).res.index = m THEN Head(kids).res.expectations ELSE <<>>)
         \o ExpectationsAt(Tail(kids), m)

\* The values of the first n kids, in order.
Values(kids, n) == [k \in 1..n |-> kids[k].res.value]

\* Kid k was called on the k-th child, where the previous kid ended.
Threaded(kids, parsers, start) ==
    \A k \in 1..Len(kids) :
        /\ kids[k].node = parsers[k]
        /\ kids[k].start = IF k = 1 THEN start ELSE kids[k - 1].res.index

\* C1: when every child of an alternative fails, the result is a Failure at
\* the largest of the children's failure indices, and its expectations are
\* the expectations of the children that failed at that index, concatenated
\* in declaration order; children that failed before it contribute nothing.
C1_AlternativeFurthestFailure ==
    (Returns("alternative") /\ AllFail(ret.kids)) =>
        /\ NKids = Len(Attachment.parsers)
        /\ ret.res = [status |-> "FAILURE", index |-> MaxIndex(ret.kids),
                      value |-> None,
                      expectations |-> ExpectationsAt(ret.kids, MaxIndex(ret.kids))]

\* An alternative whose children all failed, one of them before the others,
\* and two of them at the furthest index.
C1_Witness ==
    /\ Returns("alternative")
    /\ AllFail(ret.kids)
    /\ \E k \in 1..NKids : ret.kids[k].res.index < ret.res.index
    /\ Len(ret.res.expectations) >= 2

\* C2: an alternative (or_else is one of two children) calls its children in
\* declaration order, each at the original start; the first child that
\* succeeds ends it, its Success is the result and no later child is called.
C2_AlternativeLeftmostSuccess ==
    /\ \A d \in 1..Len(stack) :
          kind_of(stack[d].node) = "alternative" => AllFail(stack[d].kids)
    /\ Returns("alternative") =>
          /\ NKids >= 1
          /\ \A k \in 1..NKids :
                /\ ret.kids[k].node = Attachment.parsers[k]
                /\ ret.kids[k].start = ret.start
                /\ is_success(ret.kids[k].res) =>
                      (k = NKids /\ ret.res = ret.kids[k].res)
          /\ NKids < Len(Attachment.parsers) => is_success(LastKid.res)

\* An alternative of three whose second child succeeded: the third was not
\* called.
C2_Witness ==
    /\ Returns("alternative")
    /\ NKids = 2
    /\ Len(Attachment.parsers) = 3
    /\ is_success(ret.res)

\* C3: a sequence calls its children left to right, each where the previous
\* one ended (the first at start).  If all succeed the result is Success at
\* the last child's index with the list of the children's values; the first
\* failing child ends it, its Failure is the result (no value) and no later
\* child is called.
C3_SequenceThreadsAndStops ==
    Returns("sequence") =>
        /\ NKids >= 1
        /\ Threaded(ret.kids, Attachment.parsers, ret.start)
        /\ \A k \in 1..(NKids - 1) : is_success(ret.kids[k].res)
        /\ IF is_success(LastKid.res)
           THEN /\ NKids = Len(Attachment.parsers)
                /\ ret.res = Success(LastKid.res.index, List(Values(ret.kids, NKids)))
           ELSE /\ ret.res = LastKid.res
                /\ ~is_success(ret.res)
                /\ NoValue(ret.res)

\* A sequence of three whose second child failed, past the start, after the
\* first had consumed input: the third was not called.
C3_Witness ==
    /\ Returns("sequence")
    /\ Len(Attachment.parsers) = 3
    /\ NKids = 2
    /\ ~is_success(ret.res)
    /\ ret.res.index > ret.start

\* C4: times(min, max) calls its child at most max times, each attempt where
\* the previous success ended.  A failure after fewer than min successes is
\* the result; a failure after at least min successes, or max successes,
\* give Success with the values collected so far, at the offset where the
\* next attempt started or would start.
C4_TimesResult ==
    Returns("times") =>
        /\ NKids <= Attachment.max
        /\ Threaded(ret.kids, [k \in 1..NKids |-> Attachment.parsers[1]], ret.start)
        /\ \A k \in 1..(NKids - 1) : is_success(ret.kids[k].res)
        /\ IF NKids > 0 /\ ~is_success(LastKid.res)
           THEN IF NKids - 1 < Attachment.min
                THEN ret.res = LastKid.res
                ELSE ret.res = Success(LastKid.start,
                                       List(Values(ret.kids, NKids - 1)))
           ELSE /\ NKids = Attachment.max
                /\ ret.res = Success(IF NKids = 0 THEN ret.start
                                     ELSE LastKid.res.index,
                                     List(Values(ret.kids, NKids)))

\* A times that stopped at a failed attempt after at least min successes
\* and returned the values collected before it.
C4_Witness ==
    /\ Returns("times")
    /\ NKids >= 2
    /\ ~is_success(LastKid.res)
    /\ is_success(ret.res)
    /\ Attachment.min >= 1

\* The offset the repetition of a returned many has reached: where its last
\* advancing success ended.
ManyOffset ==
    IF NKids = 0 THEN ret.start
    ELSE IF is_success(LastKid.res) /\ LastKid.res.index > LastKid.start
         THEN LastKid.res.index
         ELSE LastKid.start

\* What a primitive node returns at (t, start).
PrimitiveParse(n, t, start) ==
    IF kind_of(n) = "string"
    THEN StringParse(objects[n].literal, objects[n].case_sensitive, t, start)
    ELSE IF kind_of(n) = "regex"
         THEN RegexResult(objects[n], t, start)
         ELSE EofParse(t, start)

ZeroWidthAt(n, t, at) ==
    /\ is_success(PrimitiveParse(n, t, at))
    /\ PrimitiveParse(n, t, at).index = at

\* C5 as stated: at every offset the repetition reaches, the end of the
\* input included, a child that succeeds there without advancing makes many
\* return Failure at that offset with the single expectation "".  (Read on
\* the manys whose child is a primitive, where the child's answer at the
\* offset is known without running it.)
C5_AsStated ==
    (/\ Returns("many")
     /\ kind_of(Attachment.parsers[1]) \in {"string", "regex", "eof"}
     /\ ZeroWidthAt(Attachment.parsers[1], text, ManyOffset)) =>
        ret.res = Failure(ManyOffset, <<>>)

\* C5, amended: many calls its child only at offsets before the end of the
\* input; a child that succeeds there without advancing ends it, the result
\* is Failure at that offset with the single expectation "" and the values
\* collected so far are dropped.  At the end of the input the child is not
\* called, and many returns Success with the values collected so far.
C5_ManyZeroWidthGuard ==
    /\ \A d \in 1..Len(stack) :
          kind_of(stack[d].node) = "many" =>
              \A k \in 1..Len(stack[d].kids) :
                  /\ is_success(stack[d].kids[k].res)
                  /\ stack[d].kids[k].res.index > stack[d].kids[k].start
    /\ Returns("many") =>
          /\ \A k \in 1..NKids :
                /\ ret.kids[k].start < Len(text)
                /\ (/\ is_success(ret.kids[k].res)
                    /\ ret.kids[k].res.index = ret.kids[k].start) =>
                       /\ k = NKids
                       /\ ret.res = Failure(ret.kids[k].start, <<>>)
                       /\ NoValue(ret.res)
          /\ (NKids = 0 \/ (is_success(LastKid.res)
                             /\ LastKid.res.index > LastKid.start)) =>
                /\ ManyOffset >= Len(text)
                /\ ret.res = Success(ManyOffset, List(Values(ret.kids, NKids)))

\* A many whose child succeeded without advancing after an advancing
\* success: the guard fired and the collected value is gone.
C5_Witness ==
    /\ Returns("many")
    /\ NKids >= 2
    /\ is_success(LastKid.res)
    /\ LastKid.res.index = LastKid.start
    /\ ~is_success(ret.res)

\* The text from offset `from` (counted from 0), n characters long.
Slice(t, from, n) == [k \in 1..n |-> t[from + k]]

\* C6: a literal succeeds exactly when the text holds len(s) characters from
\* start and they equal s (character by character, or after lower-casing
\* both sides when case-insensitive).  On success the index is
\* start + len(s) and the value is that piece of the input, in the input's
\* casing; otherwise, also when too few characters remain, the result is
\* Failure at start with the literal as the one expectation.
C6_LiteralResult ==
    (Returns("string") /\ ret.start <= Len(text)) =>
        LET s == Attachment.literal
            exists == ret.start + Len(s) <= Len(text)
            same(a, b) == IF Attachment.case_sensitive THEN a = b
                          ELSE tolower(a) = tolower(b)
            matches == exists /\ \A k \in 1..Len(s) : same(s[k], text[ret.start + k])
        IN  IF matches
            THEN ret.res = Success(ret.start + Len(s), Str(Slice(text, ret.start, Len(s))))
            ELSE ret.res = [status |-> "FAILURE", index |-> ret.start,
                            value |-> None, expectations |-> <<s>>]

\* A case-insensitive literal that matched input written in another casing:
\* the value is the input's text, not the literal.
C6_Witness ==
    /\ Returns("string")
    /\ ~Attachment.case_sensitive
    /\ is_success(ret.res)
    /\ ret.res.value # Str(Attachment.literal)

\* C7 as stated: at any start offset, eof succeeds (null value, index =
\* start) exactly when start = len(t), and at every other start it is
\* Failure at start expecting "EOF".
C7_AsStated ==
    Returns("eof") =>
        IF ret.start = Len(text)
        THEN ret.res = Success(ret.start, Null)
        ELSE ret.res = Failure(ret.start, EofExpectation)

\* C7, amended: eof succeeds (null value, index = start) exactly when
\* start >= len(t), which for a start within the text is start = len(t);
\* at every start < len(t) it is Failure at start expecting "EOF".
C7_EofResult ==
    Returns("eof") =>
        IF ret.start >= Len(text)
        THEN ret.res = Success(ret.start, Null)
        ELSE ret.res = Failure(ret.start, EofExpectation)

\* eof called past the end of the text, and succeeding there.
C7_Witness ==
    /\ Returns("eof")
    /\ ret.start > Len(text)
    /\ is_success(ret.res)

\* C8: for a start offset within the text, the index of every result,
\* Success or Failure, of every parser lies between start and len(t).
C8_IndexInRange ==
    (ret.valid /\ ret.start <= Len(text)) =>
        /\ ret.start <= ret.res.index
        /\ ret.res.index <= Len(text)

\* A combinator that failed strictly inside the text, past its start.
C8_Witness ==
    /\ Finished
    /\ kind_of(ret.node) \notin {"string", "regex", "eof"}
    /\ ~is_success(ret.res)
    /\ ret.start < ret.res.index
    /\ ret.res.index < Len(text)

\* The offsets at which something was refused in the parse so far.
Refusals == refused \cup guarded

\* C9 as stated: the index of a failed parse is the furthest offset at which
\* any sub-parser called during the parse was refused.
C9_AsStated ==
    (Finished /\ ~is_success(ret.res)) =>
        \A r \in Refusals : r <= ret.res.index

\* C9, amended: the index of a failed parse is an offset at which a
\* sub-parser called during the parse was refused (or many's guard fired);
\* it is the furthest such offset when no refusal was absorbed on the way,
\* that is when no times or many ended its loop on a failed attempt and no
\* alternative succeeded after a failed child.
C9_FailureIndex ==
    (Finished /\ ~is_success(ret.res)) =>
        /\ ret.res.index \in Refusals
        /\ ~absorbed => \A r \in Refusals : r <= ret.res.index

\* A failed parse in which a sub-parser was refused further along than the
\* reported index.
C9_Witness ==
    /\ Finished
    /\ ~is_success(ret.res)
    /\ absorbed
    /\ \E r \in refused : r > ret.res.index

\* C10: every Failure carries at least one expectation, and every
\* expectation is a non-empty string unless it comes from the zero-width
\* guard of many, whose one expectation is "".
C10_ExpectationsPopulated ==
    (ret.valid /\ ~is_success(ret.res)) =>
        /\ Len(ret.res.expectations) >= 1
        /\ \A k \in 1..Len(ret.res.expectations) :
              ret.res.expectations[k] = <<>> => ret.res.index \in guarded

\* An alternative all of whose children failed where it started: its
\* expectations were all appended to the empty Failure(start).
C10_Witness ==
    /\ Returns("alternative")
    /\ ~is_success(ret.res)
    /\ ret.res.index = ret.start
    /\ Len(ret.res.expectations) = Len(Attachment.parsers)

\* C11: every result a parse function returns, nested calls included, has a
\* consistent shape: a Success carries a value and no expectations, a
\* Failure carries no value.
C11_ResultShape ==
    ret.valid =>
        IF is_success(ret.res)
        THEN ret.res.value # None /\ ret.res.expectations = <<>>
        ELSE ret.res.value = None

\* A sequence, times or many that fails after it had accumulated a value, or
\* an alternative that succeeds after an earlier child had failed.
C11_Witness ==
    /\ ret.valid
    /\ NKids >= 2
    /\ \/ /\ kind_of(ret.node) \in {"sequence", "times", "many"}
          /\ is_success(ret.kids[1].res)
          /\ ~is_success(ret.res)
       \/ /\ kind_of(ret.node) = "alternative"
          /\ ~is_success(ret.kids[1].res)
          /\ is_success(ret.res)

\* The result an alternative holds after the merge of the step: the one it
\* returns, or the one it goes on with.
MergedResult ==
    IF Len(stacks'["main"]) < Len(stack)
    THEN rets'["main"].res
    ELSE stacks'["main"][Len(stack)].result

\* C12: merge on two Failures is the furthest-failure rule. Whenever a
\* Failure (the child's) is merged into a Failure (the alternative's), the
\* index becomes the larger of the two; the expectations become the other's
\* if the other is further, both in order if the offsets are equal, and are
\* left alone, with everything else, if the other is nearer; the status stays
\* Failure.
C12_MergeFurthestFailure ==
    [][(Resumed("main", "alternative") /\ ~is_success(top("main").result)
                                      /\ ~is_success(ret.res)) =>
        LET self == top("main").result
            other == ret.res
        IN  /\ ~is_success(MergedResult)
            /\ MergedResult.index =
                   IF other.index > self.index THEN other.index ELSE self.index
            /\ other.index > self.index =>
                   MergedResult.expectations = other.expectations
            /\ other.index = self.index =>
                   MergedResult.expectations =
                       self.expectations \o other.expectations
            /\ other.index < self.index => MergedResult = self]_vars

\* An alternative that merged four failures: the first where it started, the
\* second further along, the third nearer than the second, the fourth at the
\* same offset as the second.
C12_Witness ==
    /\ Returns("alternative")
    /\ ~is_success(ret.res)
    /\ NKids = 4
    /\ ret.kids[1].res.index = ret.start
    /\ ret.kids[2].res.index > ret.kids[1].res.index
    /\ ret.kids[3].res.index < ret.kids[2].res.index
    /\ ret.kids[4].res.index = ret.kids[2].res.index
    /\ ret.res.expectations =
           ret.kids[2].res.expectations \o ret.kids[4].res.expectations

\* C13: a map node called at (t, s) calls its inner parser exactly once, at
\* (t, s); on a success it returns Success at the inner index with the
\* mapped value, and the mapper has run once (a recording mapper has pushed
\* exactly that value); on a failure it returns the inner Failure as it is
\* and the mapper has not run (nothing was pushed).
C13_MapResult ==
    Returns("map") =>
        /\ NKids = 1
        /\ LastKid.node = Attachment.parsers[1]
        /\ LastKid.start = ret.start
        /\ IF is_success(LastKid.res)
           THEN /\ ret.res = Success(LastKid.res.index,
                                     Apply(Attachment.mapper, LastKid.res.value))
                /\ Records(Attachment.mapper) => results = <<ret.res.value>>
           ELSE /\ ret.res = LastKid.res
                /\ ret.res.value = None
                /\ results = <<>>

\* A recording map returned a value that differs from the inner parser's.
C13_Witness ==
    /\ Returns("map")
    /\ Records(Attachment.mapper)
    /\ is_success(ret.res)
    /\ ret.res.value # LastKid.res.value
    /\ results = <<ret.res.value>>

\* The sequence under a then or a skip has just returned to the map over it.
ProjectionResumed ==
    /\ Resumed("main", "map")
    /\ Self("main").mapper \in {"first", "second"}

\* C14: a.then(b) and a.skip(b) are sequence(a, b) with a projection. When
\* the sequence of exactly a and b, called where the then or skip was called,
\* returns with both succeeded, the result is Success at the index after b
\* with b's value for then and a's value for skip; when a or b failed, the
\* result is the Failure the sequence returned.
C14_ThenSkipProjection ==
    [][ProjectionResumed =>
        LET a == ret.kids[1].res
            b == ret.kids[Len(ret.kids)].res
            out == rets'["main"].res
        IN  /\ kind_of(ret.node) = "sequence"
            /\ Len(objects[ret.node].parsers) = 2
            /\ ret.start = top("main").start
            /\ IF Len(ret.kids) = 2 /\ is_success(a) /\ is_success(b)
               THEN out = Success(b.index,
                                  IF Self("main").mapper = "second"
                                  THEN b.value ELSE a.value)
               ELSE out = ret.res /\ ~is_success(out)]_vars

\* A then returned the value of its second parser, which is not the value of
\* its first.
C14_Witness ==
    /\ Returns("map")
    /\ Attachment.mapper = "second"
    /\ is_success(ret.res)
    /\ ret.res.value = Str(SubSeq(text, ret.start + 2, ret.res.index))
    /\ ret.res.value # Str(SubSeq(text, ret.start + 1, ret.start + 1))

\* Every success of the inner parser in the repetition thread th ran moved
\* the index.
Advancing(th) ==
    \A k \in 1..Len(rets[th].kids) :
        is_success(rets[th].kids[k].res) =>
            rets[th].kids[k].res.index > rets[th].kids[k].start

\* The main thread ran many(p) and the other thread atLeast(0)(p) on the
\* same text from the same offset.
ManyAndAtLeast ==
    /\ FinishedBy("main")
    /\ FinishedBy("other")
    /\ kind_of(rets["main"].node) = "many"
    /\ kind_of(rets["other"].node) = "times"
    /\ objects[rets["other"].node] =
           atLeast(objects[rets["main"].node].parsers[1], 0)
    /\ rets["other"].start = rets["main"].start

\* C15: where the inner parser never succeeds without advancing, many and
\* atLeast(0) over it return identical results (status, index, values) on
\* every text from every offset 0..len(t).
C15_ManyIsAtLeastZero ==
    (ManyAndAtLeast /\ Advancing("main") /\ Advancing("other")) =>
        rets["main"].res = rets["other"].res

\* Both ran, collected at least one value, and stopped before the end of
\* the text on a failure of the inner parser.
C15_Witness ==
    /\ ManyAndAtLeast
    /\ Advancing("main")
    /\ Advancing("other")
    /\ is_success(rets["main"].res)
    /\ rets["main"].res.value.l # <<>>
    /\ rets["main"].res.index < Len(text)
    /\ rets["other"].res = rets["main"].res

\* C16: a lazy node, built while its holder cell was still null, returns
\* exactly what the parser the cell holds when parse is called returns for the
\* same text and offset: it calls that parser once, at its own start, and
\* hands its result back unchanged.
C16_LazyDelegates ==
    Returns("lazy") =>
        /\ NullHolders[Attachment.holder] = 0
        /\ NKids = 1
        /\ LastKid.node = holders[Attachment.holder]
        /\ LastKid.start = ret.start
        /\ ret.res = LastKid.res

\* The cell was assigned plain eof after the graph was built, and the lazy
\* node delegated to it.
C16_Witness ==
    /\ Returns("lazy")
    /\ holders[Attachment.holder] # InitialHolders[Attachment.holder]
    /\ kind_of(LastKid.node) = "eof"
    /\ is_success(ret.res)
    /\ ret.res = LastKid.res

\* Both threads have finished a parse of the same node on the same text
\* from the same offset.
SameParseTwice ==
    /\ FinishedBy("main")
    /\ FinishedBy("other")
    /\ rets["other"].node = rets["main"].node
    /\ rets["other"].start = rets["main"].start

\* C17: parsing is stateless and re-entrant. No step of a parse changes a
\* node's attachment, a holder cell or the text; and two parses of the same
\* node on the same text from the same offset return the same result, from
\* the same calls of the same children, whether the second ran after the
\* first or interleaved with it in any way.
C17_StatelessReentrant ==
    /\ [](SameParseTwice =>
             /\ rets["other"].res = rets["main"].res
             /\ rets["other"].kids = rets["main"].kids)
    /\ [][text' = text /\ objects' = objects /\ holders' = holders]_vars

\* The second parse began while the first was under way, both called one
\* node at several places of the graph, and both returned the same.
C17_Witness ==
    /\ SameParseTwice
    /\ history["other"].overlapped
    /\ \E i, j \in 1..Len(rets["main"].kids) :
           i # j /\ rets["main"].kids[i].node = rets["main"].kids[j].node
    /\ rets["other"].res = rets["main"].res

\* The arenas, alive or not, whose vector holds a pointer to node n.
Holding(n) == {a \in DOMAIN arenas : n \in Pointees(arenas[a].objects)}

\* C18: every allocated node is registered with an arena, is not destroyed
\* while an arena holding it is alive, and is destroyed exactly once, never
\* twice and never not at all, once the arenas holding it are gone.
C18_AsStated ==
    \A n \in DOMAIN heap :
        /\ heap[n] <= 1
        /\ (Holding(n) \cap Alive # {}) => heap[n] = 0
        /\ (Holding(n) \cap Alive = {}) => heap[n] = 1

\* The well-formed arithmetic expressions no longer than MaxArithLen, each
\* with its value, written down from the grammar and not from the parser:
\* a token is followed by any number of blanks, an operand is a number or an
\* expression in parentheses, an expression is operands joined by operators,
\* and the value nests to the left.
Blanks == {[k \in 1..n |-> " "] : n \in 0..MaxArithLen}
Digits == {[k \in 1..n |-> "1"] : n \in 1..MaxArithLen}
Fits(parts) == Len(parts) <= MaxArithLen

Numbers ==
    {[s |-> d \o b, v |-> d] : d \in Digits, b \in Blanks} \cap
    [s : ArithTexts, v : Digits]

Operators ==
    {[s |-> <<c>> \o b, v |-> <<c>>] : c \in OperatorClass \cap ArithAlphabet,
                                       b \in Blanks}

\* E, and every expression of E followed by an operator and an operand of O.
RECURSIVE Joined(_, _)
Joined(E, O) ==
    LET more == {[s |-> x[1].s \o x[2].s \o x[3].s,
                  v |-> Bracket(x[2].v, x[1].v, x[3].v)] :
                    x \in {y \in E \X Operators \X O :
                              Fits(y[1].s \o y[2].s \o y[3].s)}}
    IN  IF more \subseteq E THEN E ELSE Joined(E \cup more, O)

RECURSIVE Operands(_)
Operands(depth) ==
    IF depth = 0 THEN Numbers
    ELSE Numbers \cup
         {[s |-> <<"(">> \o x[1] \o x[2].s \o <<")">> \o x[3], v |-> x[2].v] :
             x \in {y \in Blanks \X Joined(Operands(depth - 1), Operands(depth - 1))
                                 \X Blanks :
                       Fits(<<"(", ")">> \o y[1] \o y[2].s \o y[3])}}

\* No text of MaxArithLen characters nests parentheses deeper than this.
WellFormedOperands == Operands(MaxArithLen \div 2)
WellFormed == Joined(WellFormedOperands, WellFormedOperands)

IsPrefix(p, t) == Len(p) <= Len(t) /\ SubSeq(t, 1, Len(p)) = p

\* C19: the arithmetic grammar folds to the left. On every well-formed
\* expression a0 op1 a1 ... opk ak, Parser::parse succeeds at the end of the
\* text with the value v0 = value(a0), vi = "[opi, v(i-1), value(ai)]".
C19_ArithLeftFold ==
    Finished =>
        \A e \in WellFormed :
            e.s = text => ret.res = Success(Len(text), Str(e.v))

\* Three operands and two operators gave "[+, [+, 1, 1], 1]".
C19_Witness ==
    /\ Finished
    /\ is_success(ret.res)
    /\ ret.res.index = Len(text)
    /\ ret.res.value =
           Str(Bracket(<<"+">>, Bracket(<<"+">>, <<"1">>, <<"1">>), <<"1">>))

\* The length of the longest well-formed expression, trailing blanks
\* included, the text begins with.
LongestExpressionPrefix ==
    CHOOSE n \in 0..Len(text) :
        /\ \E e \in WellFormed : IsPrefix(e.s, text) /\ Len(e.s) = n
        /\ \A e \in WellFormed : IsPrefix(e.s, text) => Len(e.s) <= n

IncompleteExpression ==
    /\ \E o \in WellFormedOperands : IsPrefix(o.s, text)
    /\ \A e \in WellFormed : e.s # text

\* C20: on a text that begins with a well-formed operand but is not a
\* complete expression, Parser::parse returns the Failure at the end of the
\* longest expression the text begins with, trailing blanks included, with
\* the one expectation "EOF", however far nested parsers went before failing.
C20_ArithFailure ==
    (Finished /\ IncompleteExpression) =>
        ret.res = Failure(LongestExpressionPrefix, EofExpectation)

\* The parse failed with "EOF" at an offset before the one a nested parser
\* was refused at after it had gone into a parenthesis.
C20_Witness ==
    /\ Finished
    /\ IncompleteExpression
    /\ ret.res = Failure(LongestExpressionPrefix, EofExpectation)
    /\ \E k \in 1..Len(text) : text[k] = "("
    /\ \E r \in refused : r > ret.res.index + 2

\* A many is under way: one of the frames of the stack is a many's.
ManyActive == \E d \in 1..Len(stack) : kind_of(stack[d].node) = "many"

\* The calls a many frame has made to its inner parser: the ones that
\* returned, and the one under way if the frame is not the innermost.
ManyCalls(d) == Len(stack[d].kids) + IF d < Len(stack) THEN 1 ELSE 0

\* C21: many terminates. A many called within the text calls its inner
\* parser at most len(t) - s times, while it runs and when it returns; every
\* call but the last is a success that moved the index strictly forward;
\* and, its inner parser's calls returning, the many returns.
C21_ManyTerminates ==
    /\ [](\A d \in 1..Len(stack) :
             (kind_of(stack[d].node) = "many" /\ stack[d].start <= Len(text)) =>
                 /\ ManyCalls(d) <= Len(text) - stack[d].start
                 /\ \A k \in 1..Len(stack[d].kids) :
                        stack[d].kids[k].res.index > stack[d].kids[k].start)
    /\ []((Returns("many") /\ ret.start <= Len(text)) =>
             /\ NKids <= Len(text) - ret.start
             /\ \A k \in 1..(NKids - 1) :
                    /\ is_success(ret.kids[k].res)
                    /\ ret.kids[k].res.index > ret.kids[k].start)
    /\ (ManyActive ~> ~ManyActive)

\* A many returned after as many calls of its inner parser as there were
\* characters left, the last of them ended by the zero-width guard.
C21_Witness ==
    /\ Returns("many")
    /\ ret.start < Len(text)
    /\ NKids >= 2
    /\ NKids = Len(text) - ret.start
    /\ is_success(LastKid.res)
    /\ LastKid.res.index = LastKid.start

\* C22: whenever a times(min, max) node returns Success, the number of
\* values it collected is at least min and at most max, whatever min and
\* max are, min > max included.
C22_AsStated ==
    (Returns("times") /\ is_success(ret.res)) =>
        /\ Attachment.min <= Len(ret.res.value.l)
        /\ Len(ret.res.value.l) <= Attachment.max

\* The lazy frames among the first d frames of the stack: the depth of the
\* recursion at frame d.
LazyDepth(d) == Cardinality({e \in 1..d : kind_of(stack[e].node) = "lazy"})

\* The calls a frame has made to its children: the ones that returned, and
\* the one under way if the frame is not the innermost.
CallsOf(d) == Len(stack[d].kids) + IF d < Len(stack) THEN 1 ELSE 0

\* C23: parsing with the arithmetic grammar terminates. The lazy reference
\* to EXPRESSION is called only by the sequence that has just matched "("
\* and moved past it, so the depth of the recursion never exceeds the number
\* of characters consumed; every repetition of (OPERATOR OPERAND) that is
\* merged moved the index forward, so a repetition makes at most
\* len(t) - s + 1 calls; and every parse that was started returns.
C23_ArithTerminates ==
    /\ [](\A d \in 1..Len(stack) :
             /\ kind_of(stack[d].node) = "lazy" =>
                   /\ d > 1
                   /\ kind_of(stack[d - 1].node) = "sequence"
                   /\ stack[d - 1].start < stack[d].start
                   /\ text[stack[d - 1].start + 1] = "("
                   /\ LazyDepth(d) <= stack[d].start
                   /\ stack[d].start <= Len(text)
             /\ kind_of(stack[d].node) = "times" =>
                   /\ \A k \in 1..Len(stack[d].kids) :
                          stack[d].kids[k].res.index > stack[d].kids[k].start
                   /\ CallsOf(d) <= Len(text) - stack[d].start + 1
             /\ kind_of(stack[d].node) \in {"sequence", "alternative"} =>
                   CallsOf(d) <= Len(objects[stack[d].node].parsers)
             /\ kind_of(stack[d].node) \in {"map", "lazy"} => CallsOf(d) <= 1)
    /\ (stack # <<>> ~> Finished)

\* A parse that went through the recursion twice, one parenthesis inside the
\* other, read on inside the second, and returned.
C23_Witness ==
    /\ Finished
    /\ Len(text) >= 3
    /\ text[1] = "("
    /\ text[2] = "("
    /\ \E r \in refused : r >= 3

\* The kinds of the last three nodes of the graph.
LastThreeKinds ==
    [k \in 1..3 |-> kind_of(Len(objects) - 3 + k)]

\* C24: every call of Parser::parse allocates exactly three nodes in the
\* static arena, an eof, a sequence and a map; none is destroyed before the
\* arena is, and then each is destroyed once; after k calls the arena holds
\* the nodes of the grammar and 3k more; and no step of a parse on the built
\* parsers allocates or destroys anything.
C24_ThreeNodesPerCall ==
    /\ [](LET k == history["main"].calls
              n == Len(ArithObjects) + 3 * k
          IN  /\ Len(objects) = n
              /\ arenas[1].objects = [m \in 1..n |-> m]
              /\ k > 0 => LastThreeKinds = <<"eof", "sequence", "map">>
              /\ \A m \in 1..n : heap[m] = IF 1 \in Alive THEN 0 ELSE 1)
    /\ [][\/ history'["main"].calls = history["main"].calls + 1
          \/ ~arenas'[1].alive /\ arenas[1].alive
          \/ /\ objects' = objects
             /\ arenas' = arenas
             /\ heap' = heap]_vars

\* The arena holds the nodes of the grammar and of three calls, the third of
\* which has returned.
C24_Witness ==
    /\ Finished
    /\ history["main"].calls = 3
    /\ Len(arenas[1].objects) = Len(ArithObjects) + 9
    /\ 1 \in Alive

====
